---- MODULE Spec2Model ----
(***************************************************************************)
(* The dashboard client of src/web/script.js as a state machine: the       *)
(* cached running flag, the DOM elements the script writes, the requests   *)
(* in flight, the pending timeouts, and one action per event-loop task     *)
(* (a listener, a timer callback, or the continuation of an async function *)
(* after its await); the nav click listener is one action per statement.  *)
(***************************************************************************)
EXTENDS Integers, Sequences, FiniteSets, TLC

VARIABLES
    isRunning,       \* currentState.isRunning, a JavaScript value
    statusText,      \* #status-text textContent
    indicatorRunning,\* #status-indicator carries class 'running'
    toggleText,      \* #toggle-btn textContent
    toggleClass,     \* #toggle-btn: which of 'primary' / 'secondary' it carries
    statUptime,      \* #stat-uptime textContent
    statEmails,      \* #stat-emails textContent
    statActions,     \* #stat-actions textContent
    statRetries,     \* #stat-retries textContent
    emailsTable,     \* #emails-table-body: its rows, each a sequence of cells
    logsList,        \* #logs-list: its element children
    navActive,       \* the nav items carrying class 'active'
    pageActive,      \* the .page elements carrying class 'active'
    pageTitle,       \* #page-title textContent
    loaded,          \* DOMContentLoaded has fired (the intervals are set)
    statusFlight,    \* fetchStatus calls awaiting their response, in issue order:
                     \* whether each is the newest, and what the backend answered
    statsFlight,     \* fetchStats calls awaiting their response
    emailsFlight,    \* fetchEmails calls awaiting their response
    logsFlight,      \* fetchLogs calls awaiting their response
    postFlight,      \* toggleAgent calls awaiting their POST, in issue order
    timeouts,        \* pending setTimeout(fetchStatus, 500) callbacks
    navHandler,      \* the nav click listener that is running, and where it is
    agentRunning,    \* the backend: the agent is running
    newestResult,    \* what the most recently issued fetchStatus call got
    lastEvent        \* the task that ran last: what it consumed, issued and logged

vars == <<isRunning, statusText, indicatorRunning, toggleText, toggleClass,
          statUptime, statEmails, statActions, statRetries, emailsTable,
          logsList, navActive, pageActive, pageTitle, loaded, statusFlight,
          statsFlight, emailsFlight, logsFlight, postFlight, timeouts, navHandler,
          agentRunning, newestResult, lastEvent>>

statusDom == <<statusText, indicatorRunning, toggleText, toggleClass, statUptime>>
statsDom  == <<statEmails, statActions, statRetries>>
navDom    == <<navActive, pageActive, pageTitle>>
flights   == <<statusFlight, statsFlight, emailsFlight, logsFlight, postFlight,
               timeouts>>

(***************************************************************************)
(* Bounds of the model.                                                    *)
(***************************************************************************)
\* requests in flight plus pending timeouts, all kinds together
MaxPending == 2
\* the largest uptime, in seconds, fed to formatUptime under SpecUptime
MaxUptime == 7300
\* the largest priority score, and the negative of the smallest, under
\* SpecPriority
MaxScore == 100

(***************************************************************************)
(* JavaScript values: a type tag, a number and a text (a sequence of       *)
(* tokens).  Only the component the tag names is meaningful.               *)
(***************************************************************************)
Undefined == [t |-> "undefined", n |-> 0, s |-> <<>>]
Null      == [t |-> "null", n |-> 0, s |-> <<>>]
Bool(b)   == [t |-> "boolean", n |-> IF b THEN 1 ELSE 0, s |-> <<>>]
Num(k)    == [t |-> "number", n |-> k, s |-> <<>>]
Str(toks) == [t |-> "string", n |-> 0, s |-> toks]

\* ToBoolean: what `if (v)`, `v ? a : b`, `!v` and `v || d` test
Truthy(v) ==
    CASE v.t = "boolean" -> v.n = 1
      [] v.t = "number"  -> v.n # 0
      [] v.t = "string"  -> v.s # <<>>
      [] OTHER            -> FALSE

\* Setting textContent: undefined and null give the empty string (the
\* attribute is a nullable DOMString), anything else is converted by ToString.
TextContent(v) ==
    CASE v.t = "number"  -> ToString(v.n)
      [] v.t = "boolean" -> IF v.n = 1 THEN "true" ELSE "false"
      [] OTHER            -> ""

(***************************************************************************)
(* Responses.  fetch() either rejects or resolves with a Response of any   *)
(* HTTP status; res.json() rejects when the body is not JSON.              *)
(***************************************************************************)
Rejected == [net |-> "reject", status |-> 0, body |-> [shape |-> "none"]]
NoResponse == [net |-> "none", status |-> 0, body |-> [shape |-> "none"]]
Response(code, b) == [net |-> "response", status |-> code, body |-> b]

Unparseable == [shape |-> "unparseable"]
NullBody    == [shape |-> "null"]
\* a JSON object with none of the fields the client reads, as an error
\* response carries: {"detail": "..."}
ErrorObject == [shape |-> "object", is_running |-> Undefined, uptime |-> Undefined,
                total_emails |-> Undefined, total_actions |-> Undefined,
                pending_retries |-> Undefined]

StatusBody(r, u) == [shape |-> "object", is_running |-> r, uptime |-> u]
StatsBody(e, a, p) == [shape |-> "object", total_emails |-> e, total_actions |-> a,
                       pending_retries |-> p]

\* the outcomes of GET /control/status, for uptimes drawn from U
StatusResponses(U) ==
    {Rejected, Response(200, Unparseable), Response(500, Unparseable),
     Response(200, NullBody), Response(500, ErrorObject),
     Response(200, StatusBody(Bool(FALSE), Num(0)))}
    \cup {Response(200, StatusBody(Bool(TRUE), Num(u))) : u \in U}

StatsResponses ==
    {Rejected, Response(200, Unparseable), Response(200, NullBody),
     Response(500, ErrorObject),
     Response(200, StatsBody(Num(0), Num(0), Num(0))),
     Response(200, StatsBody(Num(7), Num(3), Num(1)))}

\* the three failures the error handling speaks of
NetworkFailure(resp) == resp.net = "reject"
Non2xx(resp)         == resp.net = "response" /\ resp.status \notin 200..299
MalformedJson(resp)  == resp.net = "response" /\ resp.body.shape = "unparseable"

(***************************************************************************)
(* Completions of a try block: it threw, or it ran to its end.             *)
(***************************************************************************)
\* `await fetch(...)` followed by `await res.json()`: throws on a rejected
\* fetch and on a body that does not parse; the HTTP status is not read.
AwaitJsonThrows(resp) ==
    \/ resp.net = "reject"
    \/ resp.body.shape = "unparseable"

\* reading a property of null (or undefined) throws a TypeError
PropertyReadThrows(b) == b.shape = "null"

(***************************************************************************)
(* formatUptime                                                            *)
(***************************************************************************)
\* a formatter whose minutes are not reduced modulo the hour
formatUptimeWholeMinutes(seconds) ==
    IF ~Truthy(seconds) THEN "0s"
    ELSE LET h == seconds.n \div 3600
             m == seconds.n \div 60
             s == seconds.n % 60
         IN  ToString(h) \o "h " \o ToString(m) \o "m " \o ToString(s) \o "s"

formatUptime(seconds) ==
    IF ~Truthy(seconds) THEN "0s"
    ELSE LET h == seconds.n \div 3600
             m == (seconds.n % 3600) \div 60
             s == seconds.n % 60
         IN  ToString(h) \o "h " \o ToString(m) \o "m " \o ToString(s) \o "s"

(***************************************************************************)
(* updateStatus                                                            *)
(***************************************************************************)
\* classList.replace(old, new) changes the class only when old is present
ClassReplace(cls, old, new) == IF cls = old THEN new ELSE cls

\* an updateStatus whose stopped branch leaves the button's text alone
updateStatusKeepsButton(running, uptime) ==
    /\ isRunning' = running
    /\ IF Truthy(running)
       THEN /\ statusText' = "Running (" \o formatUptime(uptime) \o ")"
            /\ indicatorRunning' = TRUE
            /\ toggleText' = "Stop Agent"
            /\ toggleClass' = ClassReplace(toggleClass, "primary", "secondary")
       ELSE /\ statusText' = "Stopped"
            /\ indicatorRunning' = FALSE
            /\ toggleText' = toggleText
            /\ toggleClass' = ClassReplace(toggleClass, "secondary", "primary")
    /\ statUptime' = formatUptime(uptime)

updateStatus(running, uptime) ==
    /\ isRunning' = running
    /\ IF Truthy(running)
       THEN /\ statusText' = "Running (" \o formatUptime(uptime) \o ")"
            /\ indicatorRunning' = TRUE
            /\ toggleText' = "Stop Agent"
            /\ toggleClass' = ClassReplace(toggleClass, "primary", "secondary")
       ELSE /\ statusText' = "Stopped"
            /\ indicatorRunning' = FALSE
            /\ toggleText' = "Start Agent"
            /\ toggleClass' = ClassReplace(toggleClass, "secondary", "primary")
    /\ statUptime' = formatUptime(uptime)

(***************************************************************************)
(* Rendering.  The markup a render function builds is a sequence of        *)
(* tokens: tags, and the characters of the interpolated values (a tag      *)
(* inside a value is one token).  White space between tags is left out.    *)
(* Assigning innerHTML parses the markup into elements.                    *)
(***************************************************************************)
\* `${v}` in a template literal: ToString(v)
Interpolate(v) ==
    CASE v.t = "string"    -> v.s
      [] v.t = "number"    -> <<ToString(v.n)>>
      [] v.t = "boolean"   -> <<IF v.n = 1 THEN "true" ELSE "false">>
      [] v.t = "null"      -> <<"null">>
      [] OTHER              -> <<"undefined">>

\* the length of the subject's prefix a row shows
SubjectChars == 40

\* s.substring(0, k)
Substring(toks, k) == SubSeq(toks, 1, IF Len(toks) < k THEN Len(toks) ELSE k)

\* numeric `score >= k`: undefined converts to NaN and compares false,
\* null converts to 0
AtLeast(score, k) ==
    CASE score.t = "number" -> score.n >= k
      [] score.t = "null"   -> 0 >= k
      [] OTHER               -> FALSE

HighScore == 80
MediumScore == 50

\* a classifier whose upper threshold is exclusive
getPriorityClassAbove(score) ==
    IF AtLeast(score, HighScore + 1) THEN "high"
    ELSE IF AtLeast(score, MediumScore) THEN "medium"
    ELSE "low"

getPriorityClass(score) ==
    IF AtLeast(score, HighScore) THEN "high"
    ELSE IF AtLeast(score, MediumScore) THEN "medium"
    ELSE "low"

\* e.priority_label || 'Unknown'
LabelOf(e) == IF Truthy(e.priority_label) THEN e.priority_label
              ELSE Str(<<"Unknown">>)

\* the arrow function of renderEmails throws on an element that is null (a
\* property read) and on a subject that has no substring method
EmailThrows(e) == e.shape = "null" \/ e.subject.t # "string"

EmailMarkup(e) ==
    <<"<tr>">>
    \o <<"<td>", "#">> \o Interpolate(e.id) \o <<"</td>">>
    \o <<"<td>">> \o Substring(e.subject.s, SubjectChars) \o <<"...", "</td>">>
    \o <<"<td>">> \o Interpolate(e.sender) \o <<"</td>">>
    \o <<"<td>", "<span class=tag " \o getPriorityClass(e.priority_score) \o ">">>
       \o Interpolate(LabelOf(e)) \o <<"</span>", "</td>">>
    \o <<"<td>">> \o Interpolate(e.task_status) \o <<"</td>">>
    \o <<"<td>">> \o Interpolate(e.next_action) \o <<"</td>">>
    \o <<"</tr>">>

\* the element of renderLogs' arrow function throws only on a null element
LogThrows(l) == l.shape = "null"

LogMarkup(l) ==
    <<"<div.log-item>", "<div.log-header>">>
    \o <<"<span>">> \o Interpolate(l.created_at) \o <<"</span>">>
    \o <<"<span>", "ID: ">> \o Interpolate(l.email_id) \o <<"</span>", "</div>">>
    \o <<"<div.log-content>", "<strong>", "Intent:", "</strong>">>
    \o Interpolate(l.intent) \o <<"<br>", "<strong>", "Action:", "</strong>">>
    \o Interpolate(l.agent_action)
    \o <<"</div>", "</div>">>

\* emails.map(e => ...).join('') and logs.map(l => ...).join('')
RECURSIVE EmailsMarkup(_)
EmailsMarkup(emails) ==
    IF emails = <<>> THEN <<>>
    ELSE EmailMarkup(Head(emails)) \o EmailsMarkup(Tail(emails))

RECURSIVE LogsMarkup(_)
LogsMarkup(logs) ==
    IF logs = <<>> THEN <<>>
    ELSE LogMarkup(Head(logs)) \o LogsMarkup(Tail(logs))

\* The HTML parser on the markup of a table body (the fragment case with a
\* tbody as context): a <tr> starts a row wherever it stands, closing an
\* open cell and row; a <td> outside a row starts a row of its own; what is
\* not in a cell is part of no row.
TableStep(st, tk) ==
    LET rows == st.rows
        NewCell(rs) == [rs EXCEPT ![Len(rs)] = Append(@, <<>>)]
        InCell == [rows EXCEPT ![Len(rows)] = [@ EXCEPT ![Len(@)] = Append(@, tk)]]
    IN  CASE tk = "<tr>"  -> [rows |-> Append(rows, <<>>), mode |-> "row"]
          [] tk = "</tr>" -> [rows |-> rows, mode |-> "body"]
          [] tk = "<td>"  ->
               IF st.mode = "body"
               THEN [rows |-> NewCell(Append(rows, <<>>)), mode |-> "cell"]
               ELSE [rows |-> NewCell(rows), mode |-> "cell"]
          [] tk = "</td>" ->
               [rows |-> rows, mode |-> IF st.mode = "cell" THEN "row" ELSE st.mode]
          [] OTHER ->
               IF st.mode = "cell" THEN [rows |-> InCell, mode |-> "cell"] ELSE st

\* the parser reads the tokens lo..hi from left to right, from state st: its
\* state after them (halving keeps the evaluation shallow; the comparison
\* has the left half evaluated before the right half starts)
RECURSIVE ReadTable(_, _, _, _)
ReadTable(st, toks, lo, hi) ==
    IF lo > hi THEN st
    ELSE IF lo = hi THEN TableStep(st, toks[lo])
    ELSE LET mid == (lo + hi) \div 2
             left == ReadTable(st, toks, lo, mid)
         IN  IF left = st THEN ReadTable(st, toks, mid + 1, hi)
             ELSE ReadTable(left, toks, mid + 1, hi)

ParseTableBody(toks) ==
    ReadTable([rows |-> <<>>, mode |-> "body"], toks, 1, Len(toks)).rows

DivOpen == {"<div.log-item>", "<div.log-header>", "<div.log-content>"}

\* The HTML parser on the markup of a div's content: the element children,
\* each with the tokens of what it holds.  A </div> closes the innermost
\* open div and is ignored when none is open; text and inline elements
\* directly in the container are no div children.
DivStep(st, tk) ==
    LET kids == st.kids
        Inside == [kids EXCEPT ![Len(kids)] = Append(@, tk)]
    IN  CASE tk \in DivOpen ->
               IF st.depth = 0
               THEN [kids |-> Append(kids, <<tk>>), depth |-> 1]
               ELSE [kids |-> Inside, depth |-> st.depth + 1]
          [] tk = "</div>" ->
               IF st.depth <= 1 THEN [kids |-> kids, depth |-> 0]
               ELSE [kids |-> Inside, depth |-> st.depth - 1]
          [] OTHER ->
               IF st.depth = 0 THEN st ELSE [kids |-> Inside, depth |-> st.depth]

RECURSIVE ReadDiv(_, _, _, _)
ReadDiv(st, toks, lo, hi) ==
    IF lo > hi THEN st
    ELSE IF lo = hi THEN DivStep(st, toks[lo])
    ELSE LET mid == (lo + hi) \div 2
             left == ReadDiv(st, toks, lo, mid)
         IN  IF left = st THEN ReadDiv(st, toks, mid + 1, hi)
             ELSE ReadDiv(left, toks, mid + 1, hi)

ParseChildren(toks) ==
    ReadDiv([kids |-> <<>>, depth |-> 0], toks, 1, Len(toks)).kids

\* emails.map throws when emails is no array, or when the arrow function
\* throws on an element; innerHTML is assigned only after the whole map
renderEmailsThrows(b) ==
    \/ b.shape # "array"
    \/ \E i \in 1..Len(b.items) : EmailThrows(b.items[i])

renderLogsThrows(b) ==
    \/ b.shape # "array"
    \/ \E i \in 1..Len(b.items) : LogThrows(b.items[i])

renderEmails(emails) == ParseTableBody(EmailsMarkup(emails))

renderLogs(logs) == ParseChildren(LogsMarkup(logs))

(***************************************************************************)
(* The payloads of GET /emails and GET /logs.                              *)
(***************************************************************************)
Email(id, subject, sender, score, label) ==
    [shape |-> "object", id |-> id, subject |-> subject, sender |-> sender,
     priority_score |-> score, priority_label |-> label,
     task_status |-> Str(<<"d">>), next_action |-> Str(<<"n">>)]

NullItem == [shape |-> "null"]

PlainEmail == Email(Num(1), Str(<<"a">>), Str(<<"x">>), Num(85), Str(<<"High">>))
UnlabelledEmail == Email(Num(2), Str(<<"b">>), Str(<<"y">>), Num(50), Undefined)
NoSubjectEmail == Email(Num(3), Undefined, Str(<<"z">>), Num(10), Str(<<"Low">>))
MarkupEmail == Email(Num(4), Str(<<"<tr>">>), Str(<<"w">>), Num(49), Str(<<"Low">>))

\* arrays of an ordinary email, one without a label, one without a subject,
\* and one whose subject holds a start tag
EmailSamples ==
    {<<>>, <<PlainEmail>>, <<UnlabelledEmail>>, <<PlainEmail, UnlabelledEmail>>,
     <<UnlabelledEmail, PlainEmail>>, <<NoSubjectEmail>>,
     <<PlainEmail, NoSubjectEmail>>, <<MarkupEmail>>, <<MarkupEmail, PlainEmail>>}

Log(at, id, intent, action) ==
    [shape |-> "object", created_at |-> at, email_id |-> id, intent |-> intent,
     agent_action |-> action]

PlainLog == Log(Str(<<"t">>), Num(1), Str(<<"i">>), Str(<<"r">>))
MarkupLog == Log(Str(<<"u">>), Num(2),
                 Str(<<"</div>", "</div>", "<div.log-item>">>), Str(<<"r">>))

OtherLog == Log(Str(<<"v">>), Num(3), Str(<<"j">>), Str(<<"q">>))

\* arrays of ordinary entries, a null element, and an entry whose intent
\* holds tags
LogSamples ==
    {<<>>, <<PlainLog>>, <<PlainLog, OtherLog>>, <<OtherLog, PlainLog>>,
     <<PlainLog, NullItem>>, <<MarkupLog>>}

ArrayBody(items) == [shape |-> "array", items |-> items]

\* the outcomes of GET /emails and GET /logs whose arrays are drawn from A
ListResponses(A) ==
    {Rejected, Response(200, Unparseable), Response(200, NullBody),
     Response(500, ErrorObject)}
    \cup {Response(200, ArrayBody(a)) : a \in A}

\* the arrays of the event loop: empty, one ordinary element, one element
\* that cannot be rendered
EmailArrays == {<<>>, <<PlainEmail>>, <<NoSubjectEmail>>}
LogArrays == {<<>>, <<PlainLog>>, <<NullItem>>}

(***************************************************************************)
(* The document (index.html): the nav items, each with its data-target    *)
(* and text, and the pages.                                                *)
(***************************************************************************)
NavItems == {"dashboard", "emails", "logs"}
Pages == {"dashboard", "emails", "logs"}
ItemText(item) ==
    CASE item = "dashboard" -> "Dashboard"
      [] item = "emails"    -> "Emails"
      [] item = "logs"      -> "Logs"

(***************************************************************************)
(* The event loop.                                                         *)
(***************************************************************************)
Pending == Len(statusFlight) + statsFlight + emailsFlight + logsFlight
           + Len(postFlight) + timeouts

\* a handler that issues k requests runs when they fit under the bound, or
\* when nothing at all is pending
Room(k) == Pending = 0 \/ Pending + k <= MaxPending

\* what a task did besides writing the state, the flag it started with,
\* the endpoint of the last toggleAgent call since a status response or
\* failure was last processed ("" when there was none), and whether a
\* status response or failure has been processed at all
Event(op, resp, requests, timers, console, uncaught) ==
    [op |-> op, resp |-> resp, requests |-> requests, timers |-> timers,
     console |-> console, uncaught |-> uncaught, newest |-> FALSE, item |-> "",
     was |-> isRunning, command |-> lastEvent.command,
     processed |-> lastEvent.processed]

\* a catch block that logs the error and throws it again
Rethrown(msg) == [console |-> msg, uncaught |-> TRUE]

\* catch (e) { console.error(msg, e); }: the error is logged, nothing is thrown
Caught(msg) == [console |-> msg, uncaught |-> FALSE]
Quiet == [console |-> "", uncaught |-> FALSE]

\* a fetchStatus call up to its first await: the request goes out and becomes
\* the most recently issued one
IssueStatus(flight) ==
    Append([i \in 1..Len(flight) |-> [flight[i] EXCEPT !.newest = FALSE]],
           [newest |-> TRUE, served |-> "unserved"])

\* the most recently issued fetchStatus call: still awaiting its response,
\* or resumed with the value it passed to updateStatus
AwaitingResult == [resolved |-> FALSE, running |-> Undefined]
Resumed(running) == [resolved |-> TRUE, running |-> running]

\* a task runs to completion: no other task starts while a nav click
\* listener is between two of its statements
Idle == [item |-> "", pc |-> "idle"]
At(item, pc) == [item |-> item, pc |-> pc]
NoHandler == navHandler.pc = "idle"

Remove(seq, i) == SubSeq(seq, 1, i - 1) \o SubSeq(seq, i + 1, Len(seq))

Init ==
    /\ isRunning = Bool(FALSE)
    /\ statusText = "Stopped"
    /\ indicatorRunning = FALSE
    /\ toggleText = "Start Agent"
    /\ toggleClass = "primary"
    /\ statUptime = "0s"
    /\ statEmails = "0"
    /\ statActions = "0"
    /\ statRetries = "0"
    /\ emailsTable = <<>>
    /\ logsList = <<>>
    /\ navActive = {"dashboard"}
    /\ pageActive = {"dashboard"}
    /\ pageTitle = "Dashboard"
    /\ loaded = FALSE
    /\ statusFlight = <<>>
    /\ statsFlight = 0
    /\ emailsFlight = 0
    /\ logsFlight = 0
    /\ postFlight = <<>>
    /\ timeouts = 0
    /\ navHandler = Idle
    /\ agentRunning = FALSE
    /\ newestResult = AwaitingResult
    /\ lastEvent = [op |-> "script", resp |-> NoResponse, requests |-> <<>>,
                    timers |-> <<>>, console |-> "", uncaught |-> FALSE,
                    newest |-> FALSE, item |-> "", was |-> Bool(FALSE),
                    command |-> "", processed |-> FALSE]

\* document.addEventListener('DOMContentLoaded', ...)
DOMContentLoaded ==
    /\ NoHandler
    /\ ~loaded
    /\ Room(2)
    /\ loaded' = TRUE
    /\ statusFlight' = IssueStatus(statusFlight)
    /\ newestResult' = AwaitingResult
    /\ statsFlight' = statsFlight + 1
    /\ lastEvent' = Event("DOMContentLoaded", NoResponse,
                          <<"GET /control/status", "GET /stats">>, <<>>, "", FALSE)
    /\ UNCHANGED <<navHandler, isRunning, statusDom, statsDom, emailsTable, logsList, navDom,
                   emailsFlight, logsFlight, postFlight, timeouts, agentRunning>>

\* setInterval(fetchStatus, 2000)
StatusTick ==
    /\ NoHandler
    /\ loaded
    /\ Room(1)
    /\ statusFlight' = IssueStatus(statusFlight)
    /\ newestResult' = AwaitingResult
    /\ lastEvent' = Event("statusTick", NoResponse, <<"GET /control/status">>, <<>>,
                          "", FALSE)
    /\ UNCHANGED <<navHandler, isRunning, statusDom, statsDom, emailsTable, logsList, navDom,
                   loaded, statsFlight, emailsFlight, logsFlight, postFlight,
                   timeouts, agentRunning>>

\* setInterval(fetchStats, 5000)
StatsTick ==
    /\ NoHandler
    /\ loaded
    /\ Room(1)
    /\ statsFlight' = statsFlight + 1
    /\ lastEvent' = Event("statsTick", NoResponse, <<"GET /stats">>, <<>>, "", FALSE)
    /\ UNCHANGED <<navHandler, isRunning, statusDom, statsDom, emailsTable, logsList, navDom,
                   loaded, statusFlight, emailsFlight, logsFlight, postFlight,
                   timeouts, agentRunning, newestResult>>

\* the try block of fetchStatus throws
StatusThrows(resp) == AwaitJsonThrows(resp) \/ PropertyReadThrows(resp.body)

\* a catch block that leaves the flag as it finds it
StatusFailureKeepsFlag == [running |-> isRunning, uptime |-> Num(0)]

\* the catch block of fetchStatus: updateStatus(false, 0)
StatusFailure == [running |-> Bool(FALSE), uptime |-> Num(0)]

\* a client that drops a response arriving after the response to the
\* request issued last: it keeps the flag it has
StatusArgsFresh(resp) ==
    IF newestResult.resolved THEN [running |-> isRunning, uptime |-> Num(0)]
    ELSE IF StatusThrows(resp) THEN StatusFailure
    ELSE [running |-> resp.body.is_running, uptime |-> resp.body.uptime]

\* a fetchStatus that never takes a running agent for stopped again
StatusArgsSticky(resp) ==
    IF Truthy(isRunning) THEN [running |-> isRunning, uptime |-> Num(0)]
    ELSE IF StatusThrows(resp) THEN StatusFailure
    ELSE [running |-> resp.body.is_running, uptime |-> resp.body.uptime]

\* what fetchStatus passes to updateStatus once it has resumed with resp
StatusArgs(resp) ==
    IF StatusThrows(resp) THEN StatusFailure
    ELSE [running |-> resp.body.is_running, uptime |-> resp.body.uptime]

\* a fetchStatus that calls itself again from its catch block
FetchStatusResolveRetrying(i, resp) ==
    /\ NoHandler
    /\ i \in 1..Len(statusFlight)
    /\ statusFlight' = IF StatusThrows(resp) THEN IssueStatus(Remove(statusFlight, i))
                       ELSE Remove(statusFlight, i)
    /\ LET end == IF StatusThrows(resp) THEN Caught("Status fetch failed") ELSE Quiet
           args == StatusArgs(resp)
       IN  /\ updateStatus(args.running, args.uptime)
           /\ newestResult' = IF StatusThrows(resp) THEN AwaitingResult
                              ELSE IF statusFlight[i].newest THEN Resumed(isRunning')
                              ELSE newestResult
           /\ lastEvent' = [Event("fetchStatus", resp, <<>>, <<>>, end.console,
                                  end.uncaught)
                            EXCEPT !.newest = statusFlight[i].newest, !.command = "",
                                   !.processed = TRUE]
    /\ UNCHANGED <<navHandler, statsDom, emailsTable, logsList, navDom, loaded,
                   statsFlight, emailsFlight, logsFlight, postFlight, timeouts,
                   agentRunning>>

\* fetchStatus from its await on, for the i-th request in flight
FetchStatusResolve(i, resp) ==
    /\ NoHandler
    /\ i \in 1..Len(statusFlight)
    /\ statusFlight' = Remove(statusFlight, i)
    /\ LET end == IF StatusThrows(resp) THEN Caught("Status fetch failed") ELSE Quiet
           args == StatusArgs(resp)
       IN  /\ updateStatus(args.running, args.uptime)
           /\ newestResult' = IF statusFlight[i].newest THEN Resumed(isRunning')
                              ELSE newestResult
           /\ lastEvent' = [Event("fetchStatus", resp, <<>>, <<>>, end.console,
                                  end.uncaught)
                            EXCEPT !.newest = statusFlight[i].newest, !.command = "",
                                   !.processed = TRUE]
    /\ UNCHANGED <<navHandler, statsDom, emailsTable, logsList, navDom, loaded, statsFlight,
                   emailsFlight, logsFlight, postFlight, timeouts, agentRunning>>

\* the try block of fetchStats throws
StatsThrows(resp) == AwaitJsonThrows(resp) \/ PropertyReadThrows(resp.body)

\* the three counters after fetchStats has resumed with resp, when they
\* showed `shown`: the first read of data throws before any is written
StatsShown(resp, shown) ==
    IF StatsThrows(resp) THEN shown
    ELSE <<TextContent(resp.body.total_emails),
           TextContent(resp.body.total_actions),
           TextContent(resp.body.pending_retries)>>

\* fetchStats from its await on
FetchStatsResolve(resp) ==
    /\ NoHandler
    /\ statsFlight > 0
    /\ statsFlight' = statsFlight - 1
    /\ LET end == IF StatsThrows(resp) THEN Caught("Stats fetch failed") ELSE Quiet
           shown == StatsShown(resp, statsDom)
       IN  /\ statEmails' = shown[1]
           /\ statActions' = shown[2]
           /\ statRetries' = shown[3]
           /\ lastEvent' = Event("fetchStats", resp, <<>>, <<>>, end.console,
                                 end.uncaught)
    /\ UNCHANGED <<navHandler, isRunning, statusDom, emailsTable, logsList, navDom, loaded,
                   statusFlight, emailsFlight, logsFlight, postFlight, timeouts,
                   agentRunning, newestResult>>

\* the try block of fetchEmails throws
EmailsThrows(resp) == AwaitJsonThrows(resp) \/ renderEmailsThrows(resp.body)

\* the rows of the table body after fetchEmails has resumed with resp, when
\* it held `shown`
EmailsShown(resp, shown) ==
    IF EmailsThrows(resp) THEN shown ELSE renderEmails(resp.body.items)

\* fetchEmails from its await on
FetchEmailsResolve(resp) ==
    /\ NoHandler
    /\ emailsFlight > 0
    /\ emailsFlight' = emailsFlight - 1
    /\ LET end == IF EmailsThrows(resp) THEN Caught("Emails fetch failed") ELSE Quiet
       IN  /\ emailsTable' = EmailsShown(resp, emailsTable)
           /\ lastEvent' = Event("fetchEmails", resp, <<>>, <<>>, end.console,
                                 end.uncaught)
    /\ UNCHANGED <<navHandler, isRunning, statusDom, statsDom, logsList, navDom, loaded,
                   statusFlight, statsFlight, logsFlight, postFlight, timeouts,
                   agentRunning, newestResult>>

\* the try block of fetchLogs throws
LogsThrows(resp) == AwaitJsonThrows(resp) \/ renderLogsThrows(resp.body)

\* the children of the logs list after fetchLogs has resumed with resp, when
\* it held `shown`
LogsShown(resp, shown) ==
    IF LogsThrows(resp) THEN shown ELSE renderLogs(resp.body.items)

\* fetchLogs from its await on
FetchLogsResolve(resp) ==
    /\ NoHandler
    /\ logsFlight > 0
    /\ logsFlight' = logsFlight - 1
    /\ LET end == IF LogsThrows(resp) THEN Caught("Logs fetch failed") ELSE Quiet
       IN  /\ logsList' = LogsShown(resp, logsList)
           /\ lastEvent' = Event("fetchLogs", resp, <<>>, <<>>, end.console,
                                 end.uncaught)
    /\ UNCHANGED <<navHandler, isRunning, statusDom, statsDom, emailsTable, navDom, loaded,
                   statusFlight, statsFlight, emailsFlight, postFlight, timeouts,
                   agentRunning, newestResult>>

\* the two endpoints exchanged
EndpointSwapped(running) ==
    IF Truthy(running) THEN "/control/start" ELSE "/control/stop"

\* currentState.isRunning ? '/control/stop' : '/control/start'
Endpoint(running) == IF Truthy(running) THEN "/control/stop" ELSE "/control/start"

\* toggleBtn's click listener: toggleAgent up to its await
ToggleClick ==
    /\ NoHandler
    /\ Room(1)
    /\ postFlight' = Append(postFlight, Endpoint(isRunning))
    /\ lastEvent' = [Event("toggleAgent", NoResponse,
                           <<"POST " \o Endpoint(isRunning)>>, <<>>, "", FALSE)
                     EXCEPT !.command = Endpoint(isRunning)]
    /\ UNCHANGED <<navHandler, isRunning, statusDom, statsDom, emailsTable, logsList, navDom,
                   loaded, statusFlight, statsFlight, emailsFlight, logsFlight,
                   timeouts, agentRunning, newestResult>>

\* the delay of the follow-up status fetch, in milliseconds
FollowUpDelay == 500

\* what toggleAgent schedules once its POST has resolved, whatever the HTTP
\* status: setTimeout(fetchStatus, 500)
\* a toggleAgent that sets its timer in a finally block
FollowUpsAlways(resp) == <<FollowUpDelay>>

FollowUps(resp) == IF resp.net = "reject" THEN <<>> ELSE <<FollowUpDelay>>

\* the backend applies a command it answers with a 2xx status
Backend(running, endpoint, resp) ==
    IF resp.net = "response" /\ resp.status \in 200..299
    THEN endpoint = "/control/start"
    ELSE running

\* a toggleAgent that takes a command the backend accepted as done and
\* writes the flag itself
ToggleResolveOptimistic(i, resp) ==
    /\ NoHandler
    /\ i \in 1..Len(postFlight)
    /\ postFlight' = Remove(postFlight, i)
    /\ timeouts' = timeouts + Len(FollowUps(resp))
    /\ agentRunning' = Backend(agentRunning, postFlight[i], resp)
    /\ isRunning' = IF resp.net = "reject" THEN isRunning
                    ELSE Bool(postFlight[i] = "/control/start")
    /\ LET end == IF resp.net = "reject" THEN Caught("Toggle failed") ELSE Quiet
       IN  lastEvent' = Event("toggleResolve", resp, <<>>, FollowUps(resp),
                              end.console, end.uncaught)
    /\ UNCHANGED <<navHandler, statusDom, statsDom, emailsTable, logsList, navDom,
                   loaded, statusFlight, statsFlight, emailsFlight, logsFlight,
                   newestResult>>

\* toggleAgent from its await on, for the i-th POST in flight
ToggleResolve(i, resp) ==
    /\ NoHandler
    /\ i \in 1..Len(postFlight)
    /\ postFlight' = Remove(postFlight, i)
    /\ timeouts' = timeouts + Len(FollowUps(resp))
    /\ agentRunning' = Backend(agentRunning, postFlight[i], resp)
    /\ LET end == IF resp.net = "reject" THEN Caught("Toggle failed") ELSE Quiet
       IN  lastEvent' = Event("toggleResolve", resp, <<>>, FollowUps(resp),
                              end.console, end.uncaught)
    /\ UNCHANGED <<navHandler, isRunning, statusDom, statsDom, emailsTable, logsList, navDom,
                   loaded, statusFlight, statsFlight, emailsFlight, logsFlight,
                   newestResult>>

\* a setTimeout(fetchStatus, 500) callback runs
FollowUp ==
    /\ NoHandler
    /\ timeouts > 0
    /\ timeouts' = timeouts - 1
    /\ statusFlight' = IssueStatus(statusFlight)
    /\ newestResult' = AwaitingResult
    /\ lastEvent' = Event("followUp", NoResponse, <<"GET /control/status">>, <<>>,
                          "", FALSE)
    /\ UNCHANGED <<navHandler, isRunning, statusDom, statsDom, emailsTable, logsList, navDom,
                   loaded, statsFlight, emailsFlight, logsFlight, postFlight,
                   agentRunning>>

\* refreshBtn's click listener
RefreshClick ==
    /\ NoHandler
    /\ Room(3)
    /\ statsFlight' = statsFlight + 1
    /\ emailsFlight' = emailsFlight + 1
    /\ logsFlight' = logsFlight + 1
    /\ lastEvent' = Event("refresh", NoResponse,
                          <<"GET /stats", "GET /emails", "GET /logs">>, <<>>, "",
                          FALSE)
    /\ UNCHANGED <<navHandler, isRunning, statusDom, statsDom, emailsTable, logsList, navDom,
                   loaded, statusFlight, postFlight, timeouts, agentRunning,
                   newestResult>>

\* no element loses its mark
RemoveNone(active, elements) == active

\* navItems.forEach(n => n.classList.remove('active')), and the same of pages
RemoveActive(active, elements) == active \ elements

\* element.classList.add('active')
AddActive(active, element) == active \cup {element}

\* a listener that fetches the emails whatever the target
NavRequestsAlways(target) == <<"GET /emails">>

\* the requests a click on the item with data-target `target` issues
NavRequests(target) ==
    (IF target = "emails" THEN <<"GET /emails">> ELSE <<>>)
    \o (IF target = "logs" THEN <<"GET /logs">> ELSE <<>>)

\* how many of the requests are the given one
Calls(requests, request) ==
    Cardinality({i \in 1..Len(requests) : requests[i] = request})

\* item.dataset.target: the id of the item's page
Target(item) == item

\* a nav item's click listener starts and takes the mark off every nav item
NavClick(item) ==
    /\ NoHandler
    /\ Room(Len(NavRequests(Target(item))))
    /\ navActive' = RemoveActive(navActive, NavItems)
    /\ navHandler' = At(item, "add")
    /\ lastEvent' = [Event("navClick", NoResponse, <<>>, <<>>, "", FALSE)
                     EXCEPT !.item = item]
    /\ UNCHANGED <<isRunning, statusDom, statsDom, emailsTable, logsList,
                   pageActive, pageTitle, loaded, flights, agentRunning,
                   newestResult>>

\* item.classList.add('active')
NavAddItem ==
    /\ navHandler.pc = "add"
    /\ navActive' = AddActive(navActive, navHandler.item)
    /\ navHandler' = At(navHandler.item, "pages")
    /\ UNCHANGED <<isRunning, statusDom, statsDom, emailsTable, logsList,
                   pageActive, pageTitle, loaded, flights, agentRunning,
                   newestResult, lastEvent>>

\* pages.forEach(p => p.classList.remove('active'))
NavRemovePages ==
    /\ navHandler.pc = "pages"
    /\ pageActive' = RemoveActive(pageActive, Pages)
    /\ navHandler' = At(navHandler.item, "show")
    /\ UNCHANGED <<isRunning, statusDom, statsDom, emailsTable, logsList,
                   navActive, pageTitle, loaded, flights, agentRunning,
                   newestResult, lastEvent>>

\* the target page gets the mark, the title the item's text, and the
\* listener ends with the fetch its target calls for
NavShow ==
    LET item == navHandler.item
        target == Target(item)
    IN  /\ navHandler.pc = "show"
        /\ pageActive' = AddActive(pageActive, target)
        /\ pageTitle' = ItemText(item)
        /\ emailsFlight' = emailsFlight + Calls(NavRequests(target), "GET /emails")
        /\ logsFlight' = logsFlight + Calls(NavRequests(target), "GET /logs")
        /\ navHandler' = Idle
        /\ lastEvent' = [lastEvent EXCEPT !.requests = NavRequests(target)]
        /\ UNCHANGED <<isRunning, statusDom, statsDom, emailsTable, logsList,
                       navActive, loaded, statusFlight, statsFlight, postFlight,
                       timeouts, agentRunning, newestResult>>

\* the backend answers the i-th status request in flight with its state
ServeStatus(i) ==
    /\ NoHandler
    /\ i \in 1..Len(statusFlight)
    /\ statusFlight[i].served = "unserved"
    /\ statusFlight' = [statusFlight EXCEPT
                           ![i].served = IF agentRunning THEN "running" ELSE "stopped"]
    /\ lastEvent' = Event("serve", NoResponse, <<>>, <<>>, "", FALSE)
    /\ UNCHANGED <<navHandler, isRunning, statusDom, statsDom, emailsTable, logsList,
                   navDom, loaded, statsFlight, emailsFlight, logsFlight, postFlight,
                   timeouts, agentRunning, newestResult>>

\* the well-formed response that carries an answer of the backend
ServedResponse(served) ==
    IF served = "running" THEN Response(200, StatusBody(Bool(TRUE), Num(59)))
    ELSE Response(200, StatusBody(Bool(FALSE), Num(0)))

\* the response to the i-th status request arrives once the backend has
\* answered it: what the backend answered, or a failure on the way
Deliveries(i) ==
    IF i \in 1..Len(statusFlight) /\ statusFlight[i].served # "unserved"
    THEN {ServedResponse(statusFlight[i].served), Rejected, Response(200, Unparseable)}
    ELSE {}

\* the agent starts or stops on its own account (a crash, another client)
BackendChange ==
    /\ NoHandler
    /\ agentRunning' = ~agentRunning
    /\ lastEvent' = Event("backend", NoResponse, <<>>, <<>>, "", FALSE)
    /\ UNCHANGED <<navHandler, isRunning, statusDom, statsDom, emailsTable, logsList, navDom,
                   loaded, flights, newestResult>>

(***************************************************************************)
(* The responses each specification draws from.                            *)
(***************************************************************************)
\* every kind of outcome of each request
AllStatus == StatusResponses({0, 59})
AllStats  == StatsResponses
AllEmails == ListResponses(EmailArrays)
AllLogs   == ListResponses(LogArrays)
AllPosts  == {Rejected, Response(200, Unparseable), Response(500, ErrorObject)}

\* one failure and one or two well-formed responses of each request
SomeStatus == {Rejected, Response(200, StatusBody(Bool(FALSE), Num(0))),
               Response(200, StatusBody(Bool(TRUE), Num(59)))}
SomeStats  == {Rejected, Response(200, StatsBody(Num(7), Num(3), Num(1)))}
SomeEmails == {Rejected, Response(200, ArrayBody(<<PlainEmail>>))}
SomeLogs   == {Rejected, Response(200, ArrayBody(<<PlainLog>>))}
SomePosts  == {Rejected, Response(200, Unparseable)}

\* a running agent's status for every uptime up to the bound
UptimeStatus == {Response(200, StatusBody(Bool(TRUE), Num(u))) : u \in 0..MaxUptime}

\* one email of every integer score within the bound with a label, and of
\* the threshold scores with none (the property missing, or null) and with
\* an empty one
ScoredEmail(k, l) ==
    Response(200, ArrayBody(<<Email(Num(5), Str(<<"c">>), Str(<<"v">>), Num(k), l)>>))
ScoredEmails ==
    {ScoredEmail(k, Str(<<"Urgent">>)) : k \in (0 - MaxScore)..MaxScore}
    \cup {ScoredEmail(k, l) : k \in {MediumScore - 1, HighScore},
                              l \in {Undefined, Null, Str(<<>>)}}

\* the sample arrays
SampleEmails == ListResponses(EmailSamples)
SampleLogs   == ListResponses(LogSamples)

(***************************************************************************)
(* The event loop: every listener, timer and continuation.                 *)
(***************************************************************************)
Next ==
    \/ DOMContentLoaded
    \/ StatusTick
    \/ StatsTick
    \/ \E i \in 1..Len(statusFlight), resp \in SomeStatus : FetchStatusResolve(i, resp)
    \/ \E resp \in SomeStats : FetchStatsResolve(resp)
    \/ \E resp \in SomeEmails : FetchEmailsResolve(resp)
    \/ \E resp \in SomeLogs : FetchLogsResolve(resp)
    \/ ToggleClick
    \/ \E i \in 1..Len(postFlight), resp \in SomePosts : ToggleResolve(i, resp)
    \/ FollowUp
    \/ RefreshClick
    \/ \E item \in NavItems : NavClick(item)
    \/ NavAddItem
    \/ NavRemovePages
    \/ NavShow
    \/ BackendChange

Spec == Init /\ [][Next]_vars

(***************************************************************************)
(* Polling and control: the status and stats polls and the toggle, with    *)
(* every kind of response.                                                 *)
(***************************************************************************)
NextPoll ==
    \/ DOMContentLoaded
    \/ StatusTick
    \/ StatsTick
    \/ \E i \in 1..Len(statusFlight), resp \in AllStatus : FetchStatusResolve(i, resp)
    \/ \E resp \in AllStats : FetchStatsResolve(resp)
    \/ ToggleClick
    \/ \E i \in 1..Len(postFlight), resp \in AllPosts : ToggleResolve(i, resp)
    \/ FollowUp
    \/ BackendChange

SpecPoll == Init /\ [][NextPoll]_vars

(***************************************************************************)
(* The five fetch wrappers, each called by a click or a timeout, with      *)
(* every kind of response.                                                 *)
(***************************************************************************)
NextFetch ==
    \/ ToggleClick
    \/ \E i \in 1..Len(postFlight), resp \in AllPosts : ToggleResolve(i, resp)
    \/ FollowUp
    \/ \E i \in 1..Len(statusFlight), resp \in AllStatus : FetchStatusResolve(i, resp)
    \/ RefreshClick
    \/ \E resp \in AllStats : FetchStatsResolve(resp)
    \/ \E resp \in AllEmails : FetchEmailsResolve(resp)
    \/ \E resp \in AllLogs : FetchLogsResolve(resp)

SpecFetch == Init /\ [][NextFetch]_vars

(***************************************************************************)
(* The emails and logs pages, with the sample arrays.                      *)
(***************************************************************************)
NextRender ==
    \/ \E item \in NavItems : NavClick(item)
    \/ NavAddItem
    \/ NavRemovePages
    \/ NavShow
    \/ \E resp \in SampleEmails : FetchEmailsResolve(resp)
    \/ \E resp \in SampleLogs : FetchLogsResolve(resp)

SpecRender == Init /\ [][NextRender]_vars

(***************************************************************************)
(* The first status poll of a running agent, for every uptime.             *)
(***************************************************************************)
NextUptime ==
    \/ DOMContentLoaded
    \/ \E i \in 1..Len(statusFlight), resp \in UptimeStatus : FetchStatusResolve(i, resp)

SpecUptime == Init /\ [][NextUptime]_vars

(***************************************************************************)
(* The emails page for one email of every score.                           *)
(***************************************************************************)
NextPriority ==
    \/ \E item \in NavItems : NavClick(item)
    \/ NavAddItem
    \/ NavRemovePages
    \/ NavShow
    \/ \E resp \in ScoredEmails : FetchEmailsResolve(resp)

SpecPriority == Init /\ [][NextPriority]_vars

(***************************************************************************)
(* Polling against the backend: each status response carries the state the *)
(* backend had when it answered, unless it fails on the way.  The load     *)
(* event fires before the first click, the interval timer keeps firing,    *)
(* and every request in flight is answered and delivered, the oldest at    *)
(* the latest.                                                             *)
(***************************************************************************)
NextLive ==
    \/ DOMContentLoaded
    \/ StatusTick
    \/ \E i \in 1..Len(statusFlight) : ServeStatus(i)
    \/ \E i \in 1..Len(statusFlight) :
           \E resp \in Deliveries(i) : FetchStatusResolve(i, resp)
    \/ \E resp \in SomeStats : FetchStatsResolve(resp)
    \/ loaded /\ ToggleClick
    \/ \E i \in 1..Len(postFlight), resp \in AllPosts : ToggleResolve(i, resp)
    \/ FollowUp
    \/ BackendChange

Scheduling ==
    /\ SF_vars(DOMContentLoaded)
    /\ SF_vars(StatusTick)
    /\ WF_vars(ServeStatus(1))
    /\ WF_vars(\E resp \in Deliveries(1) : FetchStatusResolve(1, resp))
    /\ WF_vars(\E resp \in SomeStats : FetchStatsResolve(resp))
    /\ WF_vars(\E resp \in AllPosts : ToggleResolve(1, resp))
    /\ WF_vars(FollowUp)

SpecLive == Init /\ [][NextLive]_vars /\ Scheduling

(***************************************************************************)
(* Claims.                                                                 *)
(***************************************************************************)
\* the last task was a fetchStatus continuation whose fetch was rejected or
\* whose body did not parse
StatusFetchFailed ==
    /\ lastEvent.op = "fetchStatus"
    /\ (NetworkFailure(lastEvent.resp) \/ MalformedJson(lastEvent.resp))

\* C1: after a fetchStatus whose fetch rejects or whose body cannot be
\* parsed, whatever the flag was before, the flag is false, the status text
\* is "Stopped", the toggle button reads "Start Agent", the indicator is not
\* marked running and the uptime display is "0s".
C1_FailedStatusShowsStopped ==
    StatusFetchFailed =>
        /\ isRunning = Bool(FALSE)
        /\ statusText = "Stopped"
        /\ toggleText = "Start Agent"
        /\ ~indicatorRunning
        /\ statUptime = "0s"

\* a status fetch has failed while the agent was shown running
C1_Witness ==
    /\ StatusFetchFailed
    /\ lastEvent.was = Bool(TRUE)
    /\ statusText = "Stopped"

\* C2: a toggleAgent call issues exactly one request, a POST, to
\* /control/stop when the flag was true at the call and to /control/start
\* when it was false, and that POST is the one now in flight.
C2_ToggleEndpointFromFlag ==
    lastEvent.op = "toggleAgent" =>
        /\ Len(lastEvent.requests) = 1
        /\ lastEvent.requests[1] \in {"POST /control/stop", "POST /control/start"}
        /\ lastEvent.was = Bool(TRUE) => lastEvent.requests[1] = "POST /control/stop"
        /\ lastEvent.was = Bool(FALSE) => lastEvent.requests[1] = "POST /control/start"
        /\ postFlight # <<>>
        /\ lastEvent.requests[1] = "POST " \o postFlight[Len(postFlight)]

\* the toggle was clicked while the agent was shown running
C2_Witness ==
    /\ lastEvent.op = "toggleAgent"
    /\ lastEvent.was = Bool(TRUE)
    /\ postFlight = <<"/control/stop">>

\* C3 as the spec states it: in every state, those between two statements
\* of a click listener included, exactly one nav item and exactly one page
\* carry the mark, the page being the item's target.
C3_OneActiveAtAllTimes ==
    /\ Cardinality(navActive) = 1
    /\ Cardinality(pageActive) = 1
    /\ pageActive = {Target(item) : item \in navActive}

\* C3: whenever no click listener is between two of its statements (so
\* after any sequence of clicks, each run to completion), exactly one nav
\* item and exactly one page carry the mark, the page being the item's
\* target, and after a click they are the clicked item and its target;
\* inside a listener at most one of each carries it.
C3_OneActiveBetweenTasks ==
    /\ NoHandler =>
           /\ Cardinality(navActive) = 1
           /\ Cardinality(pageActive) = 1
           /\ pageActive = {Target(item) : item \in navActive}
           /\ lastEvent.op = "navClick" =>
                  /\ navActive = {lastEvent.item}
                  /\ pageActive = {Target(lastEvent.item)}
    /\ ~NoHandler =>
           /\ Cardinality(navActive) <= 1
           /\ Cardinality(pageActive) <= 1

\* the logs item has been clicked, away from the page shown at load, and
\* its listener has returned
C3_Witness ==
    /\ NoHandler
    /\ lastEvent.op = "navClick"
    /\ lastEvent.item = "logs"
    /\ lastEvent.requests = <<"GET /logs">>
    /\ navActive = {"logs"}
    /\ pageActive = {"logs"}

\* what a status response makes of the flag and of the status text
CarriedFlag(resp) ==
    IF NetworkFailure(resp) \/ MalformedJson(resp) \/ resp.body.shape = "null"
    THEN Bool(FALSE)
    ELSE resp.body.is_running
CarriedText(resp) ==
    IF Truthy(CarriedFlag(resp))
    THEN "Running (" \o formatUptime(resp.body.uptime) \o ")"
    ELSE "Stopped"

\* C4: every status response is applied when it arrives, whether or not a
\* request issued after its own has been answered already: after a
\* fetchStatus continuation the flag and the status text are those its
\* response carries.
C4_LastResolvedWins ==
    lastEvent.op = "fetchStatus" =>
        /\ isRunning = CarriedFlag(lastEvent.resp)
        /\ statusText = CarriedText(lastEvent.resp)

\* all status requests have resolved, the one that resolved last was not
\* the one issued last, and the flag differs from what the response to the
\* one issued last gave
C4_Witness ==
    /\ statusFlight = <<>>
    /\ lastEvent.op = "fetchStatus"
    /\ ~lastEvent.newest
    /\ newestResult.resolved
    /\ Truthy(newestResult.running) # Truthy(isRunning)

Range(seq) == {seq[i] : i \in 1..Len(seq)}

\* the three kinds of failure of a request
Failure(resp) == NetworkFailure(resp) \/ Non2xx(resp) \/ MalformedJson(resp)

\* C5: a network failure, a non-2xx response and a malformed-JSON body
\* leave the same state: after fetchStatus the flag is falsy and the status
\* reads "Stopped"; fetchStats, fetchEmails and fetchLogs leave their
\* displays as they were.
C5_FailuresAlike ==
    [][Failure(lastEvent'.resp) =>
          /\ lastEvent'.op = "fetchStatus" =>
                 ~Truthy(isRunning') /\ statusText' = "Stopped"
          /\ lastEvent'.op = "fetchStats" => statsDom' = statsDom
          /\ lastEvent'.op = "fetchEmails" => emailsTable' = emailsTable
          /\ lastEvent'.op = "fetchLogs" => logsList' = logsList]_vars

\* the counters a stats response carries, as the displays show them
CarriedStats(resp) ==
    <<TextContent(resp.body.total_emails), TextContent(resp.body.total_actions),
      TextContent(resp.body.pending_retries)>>

\* a 2xx response whose body is a JSON object
Success(resp) ==
    /\ resp.net = "response"
    /\ resp.status \in 200..299
    /\ resp.body.shape = "object"

\* C6: a successful fetchStats overwrites the three counters with the
\* values of its response, a failed one (network failure, non-2xx, malformed
\* JSON) changes none of them, and no fetchStats changes the flag or the
\* status display.
C6_StatsOverwriteOrKeep ==
    [][lastEvent'.op = "fetchStats" =>
          /\ Success(lastEvent'.resp) => statsDom' = CarriedStats(lastEvent'.resp)
          /\ Failure(lastEvent'.resp) => statsDom' = statsDom
          /\ isRunning' = isRunning
          /\ statusDom' = statusDom]_vars

\* C7 as the spec states it: every toggleAgent call, once its POST has
\* settled, has scheduled exactly one follow-up fetchStatus.
C7_EveryToggleSchedules ==
    lastEvent.op = "toggleResolve" => lastEvent.timers = <<FollowUpDelay>>

\* C7: a toggleAgent call issues one POST and nothing else before its
\* await; when the POST's fetch resolves, with any HTTP status, the call sets
\* exactly one timer, of 500 ms, for fetchStatus; when the fetch rejects it
\* sets none and logs "Toggle failed"; a timer that fires issues one GET
\* /control/status.
C7_FollowUpUnlessRejected ==
    [][/\ lastEvent'.op = "toggleAgent" =>
              /\ Len(lastEvent'.requests) = 1
              /\ lastEvent'.timers = <<>>
              /\ timeouts' = timeouts
       /\ lastEvent'.op = "toggleResolve" =>
              /\ lastEvent'.requests = <<>>
              /\ NetworkFailure(lastEvent'.resp) =>
                     /\ lastEvent'.timers = <<>>
                     /\ timeouts' = timeouts
                     /\ lastEvent'.console = "Toggle failed"
              /\ ~NetworkFailure(lastEvent'.resp) =>
                     /\ lastEvent'.timers = <<FollowUpDelay>>
                     /\ timeouts' = timeouts + 1
              /\ UNCHANGED <<statusFlight, statsFlight, emailsFlight, logsFlight>>
       /\ lastEvent'.op = "followUp" =>
              /\ lastEvent'.requests = <<"GET /control/status">>
              /\ Len(statusFlight') = Len(statusFlight) + 1
              /\ timeouts' = timeouts - 1]_vars

\* a POST answered with a non-2xx status has set the one timer pending
C7_Witness ==
    /\ lastEvent.op = "toggleResolve"
    /\ Non2xx(lastEvent.resp)
    /\ lastEvent.timers = <<FollowUpDelay>>
    /\ timeouts = 1

\* the row of element e when its values are text
RowId(e) == <<"#">> \o Interpolate(e.id)

\* C8: a successful fetchEmails with the array A leaves one row per element
\* of A, in A's order, and a successful fetchLogs one child per element; a
\* failed one, a response with an element that cannot be rendered included,
\* leaves the content as it was.
C8_OneRowPerElement ==
    [][/\ lastEvent'.op = "fetchEmails" =>
              IF EmailsThrows(lastEvent'.resp) THEN emailsTable' = emailsTable
              ELSE LET A == lastEvent'.resp.body.items
                   IN  /\ Len(emailsTable') = Len(A)
                       /\ \A i \in 1..Len(A) : emailsTable'[i][1] = RowId(A[i])
       /\ lastEvent'.op = "fetchLogs" =>
              IF LogsThrows(lastEvent'.resp) THEN logsList' = logsList
              ELSE LET A == lastEvent'.resp.body.items
                   IN  /\ Len(logsList') = Len(A)
                       /\ \A i \in 1..Len(A) :
                              logsList'[i][4] = Interpolate(A[i].created_at)[1]]_vars

\* C9: no task ends with an uncaught error, and a request that was
\* rejected, whose body did not parse, or whose body was null, no array or
\* held an element that cannot be rendered, ends with its wrapper's message
\* logged.
C9_NothingEscapes ==
    LET resp == lastEvent.resp
        bad == NetworkFailure(resp) \/ MalformedJson(resp) \/ resp.body.shape = "null"
        noList == bad \/ resp.body.shape # "array"
    IN  /\ ~lastEvent.uncaught
        /\ lastEvent.op = "fetchStatus" /\ bad =>
               lastEvent.console = "Status fetch failed"
        /\ lastEvent.op = "fetchStats" /\ bad =>
               lastEvent.console = "Stats fetch failed"
        /\ lastEvent.op = "fetchEmails" /\ (noList \/ NoSubjectEmail \in Range(resp.body.items)) =>
               lastEvent.console = "Emails fetch failed"
        /\ lastEvent.op = "fetchLogs" /\ (noList \/ NullItem \in Range(resp.body.items)) =>
               lastEvent.console = "Logs fetch failed"
        /\ lastEvent.op = "toggleResolve" /\ NetworkFailure(resp) =>
               lastEvent.console = "Toggle failed"

\* fetchEmails has resumed with a JSON object that is no array, and logged
C9_Witness ==
    /\ lastEvent.op = "fetchEmails"
    /\ lastEvent.resp.body.shape = "object"
    /\ lastEvent.console = "Emails fetch failed"
    /\ ~lastEvent.uncaught

\* the uptime of the status response the last task resumed with
ShownSeconds == lastEvent.resp.body.uptime.n

\* C10: for n seconds, formatUptime gives "0s" when n = 0 and otherwise
\* "<h>h <m>m <s>s" for the one h, m < 60, s < 60 with 3600h + 60m + s = n;
\* 59 gives "0h 0m 59s" and 3661 gives "1h 1m 1s".
C10_UptimeFormat ==
    lastEvent.op = "fetchStatus" /\ Success(lastEvent.resp) =>
        LET n == ShownSeconds
        IN  /\ n = 0 => statUptime = "0s"
            /\ n > 0 =>
                 \E h \in 0..(MaxUptime \div 3600 + 1), m \in 0..59 :
                     LET s == n - 3600 * h - 60 * m
                     IN  /\ s \in 0..59
                         /\ statUptime = ToString(h) \o "h " \o ToString(m)
                                         \o "m " \o ToString(s) \o "s"
            /\ n = 59 => statUptime = "0h 0m 59s"
            /\ n = 3661 => statUptime = "1h 1m 1s"

\* an uptime of 3661 seconds is on display
C10_Witness ==
    /\ lastEvent.op = "fetchStatus"
    /\ Success(lastEvent.resp)
    /\ ShownSeconds = 3661
    /\ statUptime = "1h 1m 1s"

\* the one email of the response the last task resumed with
ShownEmail == lastEvent.resp.body.items[1]

\* the fifth token on: the tag cell of a row, as a class and a text
TagCell(class, text) == <<"<span class=tag " \o class \o ">">> \o text \o <<"</span>">>

\* C11: the tag of a rendered row has class "high" when the score is at
\* least 80, "medium" when it is from 50 to 79 and "low" when it is below 50
\* (80 high, 79 and 50 medium, 49 low), and shows the email's label, or
\* "Unknown" when the label is absent.
C11_PriorityTag ==
    lastEvent.op = "fetchEmails" /\ lastEvent.console = "" =>
        LET score == ShownEmail.priority_score.n
            label == ShownEmail.priority_label
            class == IF score >= 80 THEN "high"
                     ELSE IF 50 <= score /\ score < 80 THEN "medium"
                     ELSE "low"
            text  == IF label.t = "string" /\ label.s # <<>> THEN label.s
                     ELSE <<"Unknown">>
        IN  /\ Len(emailsTable) = 1
            /\ emailsTable[1][4] = TagCell(class, text)
            /\ score = 80 => emailsTable[1][4][1] = "<span class=tag high>"
            /\ score \in {79, 50} => emailsTable[1][4][1] = "<span class=tag medium>"
            /\ score = 49 => emailsTable[1][4][1] = "<span class=tag low>"

\* an email of score 80 without a label is on display as high, "Unknown"
C11_Witness ==
    /\ lastEvent.op = "fetchEmails"
    /\ lastEvent.console = ""
    /\ ShownEmail.priority_score = Num(80)
    /\ ShownEmail.priority_label = Undefined
    /\ emailsTable[1][4] = TagCell("high", <<"Unknown">>)

\* a step of a nav click listener
NavStep == ~NoHandler \/ ~NoHandler'

\* C12: a navigation click sets the title to the clicked item's text,
\* issues one fetchEmails when the target is 'emails', one fetchLogs when it
\* is 'logs' and nothing otherwise; no step of it issues a status, stats or
\* POST request, sets a timer, or writes the flag or the status display.
C12_NavClickEffects ==
    [][NavStep =>
          /\ UNCHANGED <<isRunning, statusDom, statsDom, statusFlight, statsFlight,
                         postFlight, timeouts>>
          /\ NoHandler' =>
                 LET item == navHandler.item
                 IN  /\ pageTitle' = ItemText(item)
                     /\ emailsFlight' =
                            emailsFlight + (IF Target(item) = "emails" THEN 1 ELSE 0)
                     /\ logsFlight' =
                            logsFlight + (IF Target(item) = "logs" THEN 1 ELSE 0)
                     /\ lastEvent'.requests =
                            CASE Target(item) = "emails" -> <<"GET /emails">>
                              [] Target(item) = "logs"   -> <<"GET /logs">>
                              [] OTHER                    -> <<>>
          /\ ~NoHandler' => UNCHANGED <<emailsFlight, logsFlight, pageTitle>>]_vars

\* the emails item has been clicked while the agent was shown running: the
\* title is its text and one fetchEmails is in flight
C12_Witness ==
    /\ NoHandler
    /\ lastEvent.op = "navClick"
    /\ lastEvent.item = "emails"
    /\ pageTitle = "Emails"
    /\ emailsFlight = 1
    /\ logsFlight = 0
    /\ isRunning = Bool(TRUE)

\* the POST that starts, or stops, the agent
Command(start) == IF start THEN "POST /control/start" ELSE "POST /control/stop"

\* C13: no step of toggleAgent writes the flag or the status display,
\* whatever its POST gets; they change only in a fetchStatus continuation.
\* So a toggleAgent call that follows another with no status response or
\* failure processed in between issues the same command again, and a call
\* made while the flag disagrees with the backend issues start to a running
\* agent or stop to a stopped one.
C13_ToggleLeavesFlag ==
    [][/\ lastEvent'.op \in {"toggleAgent", "toggleResolve"} =>
              UNCHANGED <<isRunning, statusDom>>
       /\ (isRunning' # isRunning \/ statusDom' # statusDom) =>
              lastEvent'.op = "fetchStatus"
       /\ lastEvent'.op = "toggleAgent" =>
              /\ lastEvent.command # "" =>
                     lastEvent'.requests = <<"POST " \o lastEvent.command>>
              /\ Truthy(isRunning) # agentRunning =>
                     lastEvent'.requests = <<Command(agentRunning)>>]_vars

\* two toggleAgent calls with no status processed between them have both
\* issued start, the second to an agent that was running by then
C13_Witness ==
    /\ lastEvent.op = "toggleAgent"
    /\ postFlight = <<"/control/start", "/control/start">>
    /\ agentRunning
    /\ isRunning = Bool(FALSE)

\* the number of requests and timers of the six kinds that are pending
Outstanding ==
    <<Len(statusFlight), statsFlight, emailsFlight, logsFlight, Len(postFlight),
      timeouts>>

\* the continuations of the four GET wrappers, and which kind each consumes
Continuations ==
    [fetchStatus |-> 1, fetchStats |-> 2, fetchEmails |-> 3, fetchLogs |-> 4]

\* C14: the continuation of fetchStatus, fetchStats, fetchEmails or
\* fetchLogs, failed or not, consumes its own request and issues and
\* schedules nothing; a status request is issued only by the load handler
\* (once), a poll tick or a follow-up timer, one each, and a follow-up timer
\* is set only by toggleAgent.
C14_NoRetry ==
    [][/\ lastEvent'.op \in DOMAIN Continuations =>
              /\ lastEvent'.requests = <<>>
              /\ lastEvent'.timers = <<>>
              /\ Outstanding' = [Outstanding EXCEPT
                                    ![Continuations[lastEvent'.op]] = @ - 1]
       /\ Len(statusFlight') > Len(statusFlight) =>
              /\ lastEvent'.op \in {"DOMContentLoaded", "statusTick", "followUp"}
              /\ Len(statusFlight') = Len(statusFlight) + 1
              /\ lastEvent'.op = "followUp" => timeouts' = timeouts - 1
              /\ lastEvent'.op = "DOMContentLoaded" => ~loaded
       /\ statsFlight' > statsFlight =>
              lastEvent'.op \in {"DOMContentLoaded", "statsTick", "refresh"}
       /\ emailsFlight' > emailsFlight => lastEvent'.op \in {"refresh", "navClick"}
       /\ logsFlight' > logsFlight => lastEvent'.op \in {"refresh", "navClick"}
       /\ timeouts' > timeouts => lastEvent'.op = "toggleResolve"]_vars

\* the status request of the page load has failed and nothing is pending
C14_Witness ==
    /\ loaded
    /\ lastEvent.op = "fetchStatus"
    /\ lastEvent.console = "Status fetch failed"
    /\ Outstanding = <<0, 0, 0, 0, 0, 0>>

\* C15: once a status response or failure has been processed, the button
\* reads "Stop Agent", the status text is "Running (<uptime>)" and the
\* indicator is marked running exactly when the flag is truthy; otherwise
\* the button reads "Start Agent", the text is "Stopped" and the indicator
\* is not marked.
C15_DisplayAgreesWithFlag ==
    lastEvent.processed =>
        IF Truthy(isRunning)
        THEN /\ toggleText = "Stop Agent"
             /\ statusText = "Running (" \o statUptime \o ")"
             /\ indicatorRunning
        ELSE /\ toggleText = "Start Agent"
             /\ statusText = "Stopped"
             /\ ~indicatorRunning

\* the agent was shown running and a status failure has been processed
\* with a toggle still in flight: the display reads stopped
C15_Witness ==
    /\ lastEvent.processed
    /\ lastEvent.op = "fetchStatus"
    /\ lastEvent.was = Bool(TRUE)
    /\ lastEvent.console = "Status fetch failed"
    /\ postFlight # <<>>
    /\ toggleText = "Start Agent"
    /\ statusText = "Stopped"
    /\ ~indicatorRunning

\* from some point on the backend's running state does not change
BackendSettles == <>[][agentRunning' = agentRunning]_vars

\* from some point on no status request fails
StatusWellFormed ==
    <>[][lastEvent'.op = "fetchStatus" => lastEvent'.console = ""]_vars

\* the flag and the displayed status are the backend's running state
ShowsBackend ==
    /\ Truthy(isRunning) = agentRunning
    /\ indicatorRunning = agentRunning
    /\ toggleText = IF agentRunning THEN "Stop Agent" ELSE "Start Agent"
    /\ statusText = IF agentRunning THEN "Running (" \o statUptime \o ")"
                    ELSE "Stopped"

\* C16: if from some point on the backend's running state does not change
\* and no status request fails, then, the poll timer firing and every
\* response being delivered, the flag and the displayed status eventually
\* equal the backend's state and stay equal.
C16_PollConverges == BackendSettles /\ StatusWellFormed => <>[]ShowsBackend

\* the agent has started on its own account while shown stopped, and a
\* poll has brought the display to running
C16_Witness ==
    /\ lastEvent.op = "fetchStatus"
    /\ lastEvent.was = Bool(FALSE)
    /\ lastEvent.command = ""
    /\ postFlight = <<>>
    /\ agentRunning
    /\ ShowsBackend

====
